---- MODULE Spec2Model ----
(***************************************************************************)
(* twse_exporter (src/main.go): the /metrics handler, the TTL cache        *)
(* getCachedStockInfo guarding the upstream call fetchStockInfo, and the   *)
(* per-request construction of the gauge registry.                         *)
(*                                                                         *)
(* Time is counted in whole seconds.  Strings are sequences of one-letter  *)
(* strings, so that formatting and parsing are computed letter by letter.  *)
(***************************************************************************)
EXTENDS Integers, Sequences, FiniteSets, TLC

\* ------------------------------------------------------------------ bounds
\* Scrape requests of one run; each is served by its own goroutine.
NumRequests == 2
\* Longest msgArray the upstream answers the first scrape with (SpecFirst).
MaxRecords == 3
\* Last reading of the clock the model follows.
MaxTime == 6

\* --------------------------------------------------------------- constants
\* 5*time.Second, in seconds.
TTL == 5
\* time.Time{}, the initial cacheTimestamp.  It lies centuries before any
\* reading of the clock; the model places it at the latest instant that is
\* still a full TTL before the first reading (0), the least favourable one.
ZeroTime == 0 - TTL

Requests == 1..NumRequests
NoRequest == 0

\* ----------------------------------------------------------------- records
\* The fields of StockInfo the handler reads: Ex, C (metric name), At, D,
\* Percent (help text) and Pz (price).
StockInfo(ex, c, pz) ==
    [Ex |-> ex, C |-> c, At |-> <<"n">>, D |-> <<"d">>, Percent |-> <<"%">>, Pz |-> pz]

recA == StockInfo(<<"t">>, <<"a">>, <<"1">>)
recB == StockInfo(<<"t">>, <<"b">>, <<"2", ".", "5">>)
recBad == StockInfo(<<"t">>, <<"c">>, <<"-">>)
recDot == StockInfo(<<"t">>, <<".">>, <<"1">>)

\* The records the upstream feed answers with: two instruments with parsable
\* prices, one whose price is "-" (the feed's mark for "no trade yet") and
\* one whose category holds a letter that is none of [a-zA-Z0-9_].
RecordSet == { recA, recB, recBad, recDot }

RECURSIVE SeqsUpTo(_, _)
SeqsUpTo(S, n) ==
    IF n = 0 THEN { <<>> }
    ELSE LET shorter == SeqsUpTo(S, n - 1)
         IN  shorter \cup { Append(s, x) : s \in shorter, x \in S }

\* What json.Unmarshal can leave in response.MsgArray.
Responses == SeqsUpTo(RecordSet, MaxRecords)

\* The answers followed under concurrent scrapes (Spec): an empty msgArray,
\* one whose prices all parse, one holding a price that does not, and one
\* that lists an instrument twice before such a price.
Feed == { <<>>, <<recB, recA>>, <<recA, recBad>>, <<recA, recA, recBad>> }

\* ------------------------------------------------------- strconv.ParseFloat
\* Decimal syntax of strconv.ParseFloat(s, 64) over the letters the model
\* gives a price: digits, ".", "+", "-", "e", "E".  (Go also reads "inf",
\* "nan", hexadecimal mantissas and "_" separators; no price of RecordSet
\* holds their letters.)  The value is sign * mant * 10^exp.
DigitSeq == <<"0", "1", "2", "3", "4", "5", "6", "7", "8", "9">>
Digits == { DigitSeq[k] : k \in 1..10 }
DigitVal(c) == (CHOOSE k \in 1..10 : DigitSeq[k] = c) - 1

\* readFloat's mantissa loop from position i: digits and at most one ".".
RECURSIVE ScanMantissa(_, _, _, _, _, _)
ScanMantissa(s, i, sawDot, mant, nd, frac) ==
    IF i <= Len(s) /\ s[i] \in Digits
      THEN ScanMantissa(s, i + 1, sawDot, mant * 10 + DigitVal(s[i]), nd + 1,
                        IF sawDot THEN frac + 1 ELSE frac)
    ELSE IF i <= Len(s) /\ s[i] = "." /\ ~sawDot
      THEN ScanMantissa(s, i + 1, TRUE, mant, nd, frac)
    ELSE [i |-> i, mant |-> mant, nd |-> nd, frac |-> frac]

\* readFloat's exponent digits from position i.
RECURSIVE ScanDigits(_, _, _)
ScanDigits(s, i, acc) ==
    IF i <= Len(s) /\ s[i] \in Digits
      THEN ScanDigits(s, i + 1, acc * 10 + DigitVal(s[i]))
      ELSE [i |-> i, val |-> acc]

ParseError == [ok |-> FALSE, neg |-> FALSE, mant |-> 0, exp |-> 0]

ParseFloat(s) ==
    IF Len(s) = 0 THEN ParseError
    ELSE
    LET signed == s[1] \in {"+", "-"}
        neg  == s[1] = "-"
        m    == ScanMantissa(s, IF signed THEN 2 ELSE 1, FALSE, 0, 0, 0)
        hasE == m.i <= Len(s) /\ s[m.i] \in {"e", "E"}
        j    == m.i + 1
        eSigned == j <= Len(s) /\ s[j] \in {"+", "-"}
        eNeg == j <= Len(s) /\ s[j] = "-"
        k    == IF eSigned THEN j + 1 ELSE j
        e    == ScanDigits(s, k, 0)
    IN  IF m.nd = 0 THEN ParseError
        ELSE IF ~hasE
          THEN IF m.i <= Len(s) THEN ParseError
               ELSE [ok |-> TRUE, neg |-> neg, mant |-> m.mant, exp |-> 0 - m.frac]
        ELSE IF e.i = k \/ e.i <= Len(s) THEN ParseError
        ELSE [ok |-> TRUE, neg |-> neg, mant |-> m.mant,
              exp |-> (IF eNeg THEN 0 - e.val ELSE e.val) - m.frac]

\* ------------------------------------------------------------ the registry
Str_gauge == <<"_", "g", "a", "u", "g", "e">>

\* fmt.Sprintf("%s_%s_gauge", info.C, info.Ex): the two operands exchanged.
MetricNameSwapped(info) == info.C \o <<"_">> \o info.Ex \o Str_gauge

\* fmt.Sprintf("%s_%s_gauge", info.Ex, info.C)
MetricName(info) == info.Ex \o <<"_">> \o info.C \o Str_gauge

\* fmt.Sprintf("%s_%s<at>%s %s<price of>%s", Ex, At, D, Percent, Pz); the two
\* CJK literals of the format are written <at> and <price of>.
MetricHelp(info) ==
    info.Ex \o <<"_">> \o info.At \o <<"<at>">> \o info.D \o <<" ">>
        \o info.Percent \o <<"<price of>">> \o info.Pz

\* How the linked client_golang validates a metric name: the legacy pattern
\* [a-zA-Z_:][a-zA-Z0-9_:]* or, in later releases, any non-empty UTF-8
\* string.  src/ pins no version, so a build may have either.
NameValidationSchemes == { "legacy", "utf8" }

\* The scheme of the client_golang the running binary was linked with.
VARIABLE nameValidation

\* The letters of the model a legacy name may start with, and go on with.
LegacyFirstLetters == { "_", ":", "a", "b", "c", "e", "g", "t", "u" }
LegacyLetters == LegacyFirstLetters \cup Digits

\* model.IsValidLegacyMetricName
IsValidLegacyMetricName(name) ==
    /\ Len(name) > 0
    /\ name[1] \in LegacyFirstLetters
    /\ \A k \in 2..Len(name) : name[k] \in LegacyLetters

\* model.IsValidMetricName under the scheme (the letters of the model are
\* all valid UTF-8).
IsValidMetricName(name, scheme) ==
    IF scheme = "legacy" THEN IsValidLegacyMetricName(name) ELSE Len(name) > 0

RegisteredNames(registry) == { registry[k].name : k \in 1..Len(registry) }

\* The handler's loop over stockInfos from record i on, with the gauges
\* registered so far.  ParseFloat failing answers 500 and returns;
\* registry.MustRegister panics on a gauge whose name prometheus.NewGauge
\* found invalid and on a name the registry already holds.
RECURSIVE BuildFrom(_, _, _)
BuildFrom(infos, i, registry) ==
    IF i > Len(infos) THEN [kind |-> "ok", registry |-> registry]
    ELSE
    LET info  == infos[i]
        price == ParseFloat(info.Pz)
        gauge == [name |-> MetricName(info), help |-> MetricHelp(info),
                  neg |-> price.neg, mant |-> price.mant, exp |-> price.exp]
    IN  IF ~price.ok THEN [kind |-> "parseError", registry |-> registry]
        ELSE IF \/ ~IsValidMetricName(gauge.name, nameValidation)
                \/ gauge.name \in RegisteredNames(registry)
          THEN [kind |-> "panic", registry |-> registry]
        ELSE BuildFrom(infos, i + 1, Append(registry, gauge))

\* registry := prometheus.NewRegistry(), then the loop.
Build(infos) == BuildFrom(infos, 1, <<>>)

\* The letters of metric names in byte order, for the sort Gather applies.
ByteOrder == <<".", "0", "1", "2", "3", "4", "5", "6", "7", "8", "9", "_",
               "a", "b", "c", "e", "g", "t", "u">>
ByteRank(c) == CHOOSE k \in 1..Len(ByteOrder) : ByteOrder[k] = c

\* s < t as Go compares strings.
RECURSIVE StrLess(_, _)
StrLess(s, t) ==
    IF Len(t) = 0 THEN FALSE
    ELSE IF Len(s) = 0 THEN TRUE
    ELSE IF s[1] = t[1] THEN StrLess(Tail(s), Tail(t))
    ELSE ByteRank(s[1]) < ByteRank(t[1])

\* registry.Gather(): one metric family per gauge, sorted by name.
RECURSIVE Gather(_)
Gather(registry) ==
    IF Len(registry) = 0 THEN <<>>
    ELSE LET k == CHOOSE a \in 1..Len(registry) :
                     \A b \in 1..Len(registry) :
                        b = a \/ StrLess(registry[a].name, registry[b].name)
             rest == [x \in 1..(Len(registry) - 1) |->
                        IF x < k THEN registry[x] ELSE registry[x + 1]]
         IN  <<registry[k]>> \o Gather(rest)

\* What the handler writes for a snapshot: lines 162-191.
Serve(infos) ==
    LET built == Build(infos)
    IN  CASE built.kind = "ok" ->
               [status |-> "200", metrics |-> Gather(built.registry), msg |-> ""]
          [] built.kind = "parseError" ->
               [status |-> "500", metrics |-> <<>>, msg |-> "Failed to parse price"]
          [] built.kind = "panic" ->
               \* net/http recovers the panic and closes the connection:
               \* the client receives no response.
               [status |-> "aborted", metrics |-> <<>>, msg |-> ""]

\* ------------------------------------------------------------------- state
VARIABLES
    now,             \* the clock read by time.Now and time.Since
    alive,           \* FALSE once log.Fatalf has ended the process
    cacheMutex,      \* the request holding cacheMutex, or NoRequest
    cacheData,       \* var cacheData []StockInfo
    cacheTimestamp,  \* var cacheTimestamp time.Time
    pc,              \* where each request's goroutine stands
    stockInfos,      \* each request's local stockInfos
    resp,            \* what each request's client received
    fetchCount,      \* history: upstream calls started so far
    cacheDataSrc,    \* history: the upstream call cacheData came from
    cacheTsSrc,      \* history: the upstream call cacheTimestamp was set after
    lastFetched,     \* history: id and msgArray of the latest decoded answer
    lastIssue,       \* history: clock at the latest arrival, while more may come
    hist             \* history of each request, see NoHist

vars == <<nameValidation, now, alive, cacheMutex, cacheData, cacheTimestamp, pc, stockInfos, resp,
          fetchCount, cacheDataSrc, cacheTsSrc, lastFetched, lastIssue, hist>>

NoResp == [status |-> "none", metrics |-> <<>>, msg |-> ""]

Never == 0 - 1

NoHist ==
    [ nearPrev |-> FALSE,       \* it arrived less than TTL after the one before it
      expiredAtIssue |-> FALSE, \* the cache was at least TTL old at that moment
      fetchId  |-> 0,           \* the upstream call made for this request, if any
      outcome  |-> "none",      \* how that call ended
      stamp    |-> Never,       \* the cacheTimestamp this request stored
      servedBy |-> 0,           \* the upstream call whose answer get returned
      waiting  |-> {} ]         \* requests blocked in Lock when this one missed

\* The values the state takes: the package variables of lines 79-83, the
\* locals of each handler goroutine, and the history kept about them.
TypeOK ==
    /\ nameValidation \in NameValidationSchemes
    /\ now \in 0..MaxTime
    /\ alive \in BOOLEAN
    /\ cacheMutex \in Requests \cup {NoRequest}
    /\ cacheData \in Feed \cup Responses
    /\ cacheTimestamp \in {ZeroTime} \cup (0..MaxTime)
    /\ pc \in [Requests -> { "idle", "lock", "check", "fetch", "storeTime",
                              "geterr", "handle", "done" }]
    /\ stockInfos \in [Requests -> Feed \cup Responses]
    /\ \A p \in Requests : resp[p].status \in { "none", "200", "500", "aborted" }
    /\ fetchCount \in 0..NumRequests
    /\ cacheDataSrc \in 0..NumRequests
    /\ cacheTsSrc \in 0..NumRequests
    /\ lastFetched.id \in 0..NumRequests
    /\ lastIssue \in {Never} \cup (0..MaxTime)
    /\ \A p \in Requests : hist[p].fetchId \in 0..NumRequests

Init ==
    /\ nameValidation \in NameValidationSchemes
    /\ now = 0
    /\ alive = TRUE
    /\ cacheMutex = NoRequest
    /\ cacheData = <<>>
    /\ cacheTimestamp = ZeroTime
    /\ pc = [p \in Requests |-> "idle"]
    /\ stockInfos = [p \in Requests |-> <<>>]
    /\ resp = [p \in Requests |-> NoResp]
    /\ fetchCount = 0
    /\ cacheDataSrc = 0
    /\ cacheTsSrc = 0
    /\ lastFetched = [id |-> 0, records |-> <<>>]
    /\ lastIssue = Never
    /\ hist = [p \in Requests |-> NoHist]

\* time.Since(t)
Since(t) == now - t

\* The clock advances; nothing bounds what may pass between two steps.
Tick ==
    /\ alive
    /\ now < MaxTime
    /\ now' = now + 1
    /\ UNCHANGED <<nameValidation, alive, cacheMutex, cacheData, cacheTimestamp, pc, stockInfos, resp,
                   fetchCount, cacheDataSrc, cacheTsSrc, lastFetched, lastIssue, hist>>

\* ------------------------------------------------------ getCachedStockInfo
\* Mutant: a Lock that excludes nobody.
MutexFreeAlways == TRUE

\* cacheMutex.Lock() returns only when no goroutine holds the mutex.
MutexFree == cacheMutex = NoRequest

\* Mutant: the comparison reversed.
FreshReversed == Since(cacheTimestamp) > TTL

\* Mutant: the comparison off by one (<= for <).
FreshInclusive == Since(cacheTimestamp) <= TTL

\* time.Since(cacheTimestamp) < 5*time.Second
Fresh == Since(cacheTimestamp) < TTL

\* A scrape request arrives: the handler calls getCachedStockInfo and
\* reaches cacheMutex.Lock().  Requests are numbered in their order of arrival.
StartRequest(p) ==
    /\ alive
    /\ pc[p] = "idle"
    /\ \A q \in Requests : q < p => pc[q] # "idle"
    /\ pc' = [pc EXCEPT ![p] = "lock"]
    /\ hist' = [hist EXCEPT ![p].nearPrev = (lastIssue # Never /\ now - lastIssue < TTL),
                            ![p].expiredAtIssue = ~Fresh]
    /\ lastIssue' = IF p = NumRequests THEN Never ELSE now
    /\ UNCHANGED <<nameValidation, now, alive, cacheMutex, cacheData, cacheTimestamp, stockInfos, resp,
                   fetchCount, cacheDataSrc, cacheTsSrc, lastFetched>>

\* Line 115.
Lock(p) ==
    /\ alive
    /\ pc[p] = "lock"
    /\ MutexFree
    /\ cacheMutex' = p
    /\ pc' = [pc EXCEPT ![p] = "check"]
    /\ UNCHANGED <<nameValidation, now, alive, cacheData, cacheTimestamp, stockInfos, resp,
                   fetchCount, cacheDataSrc, cacheTsSrc, lastFetched, lastIssue, hist>>

\* Mutant: a hit that renews the timestamp (a sliding TTL).
CacheHitTouch(p) ==
    /\ alive
    /\ pc[p] = "check"
    /\ Fresh
    /\ stockInfos' = [stockInfos EXCEPT ![p] = cacheData]
    /\ cacheTimestamp' = now
    /\ cacheMutex' = NoRequest
    /\ pc' = [pc EXCEPT ![p] = "handle"]
    /\ hist' = [hist EXCEPT ![p].servedBy = cacheDataSrc]
    /\ UNCHANGED <<nameValidation, now, alive, cacheData, resp,
                   fetchCount, cacheDataSrc, cacheTsSrc, lastFetched, lastIssue>>

\* Lines 118-120: the snapshot is young; return it, unlocking.
CacheHit(p) ==
    /\ alive
    /\ pc[p] = "check"
    /\ Fresh
    /\ stockInfos' = [stockInfos EXCEPT ![p] = cacheData]
    /\ cacheMutex' = NoRequest
    /\ pc' = [pc EXCEPT ![p] = "handle"]
    /\ hist' = [hist EXCEPT ![p].servedBy = cacheDataSrc]
    /\ UNCHANGED <<nameValidation, now, alive, cacheData, cacheTimestamp, resp,
                   fetchCount, cacheDataSrc, cacheTsSrc, lastFetched, lastIssue>>

\* Lines 118, 122 and 85-93: the snapshot is old; http.Get goes out.
CacheMiss(p) ==
    /\ alive
    /\ pc[p] = "check"
    /\ ~Fresh
    /\ fetchCount' = fetchCount + 1
    /\ pc' = [pc EXCEPT ![p] = "fetch"]
    /\ hist' = [hist EXCEPT ![p].fetchId = fetchCount + 1,
                            ![p].waiting = { q \in Requests : pc[q] = "lock" }]
    /\ UNCHANGED <<nameValidation, now, alive, cacheMutex, cacheData, cacheTimestamp, stockInfos, resp,
                   cacheDataSrc, cacheTsSrc, lastFetched, lastIssue>>

\* ---------------------------------------------------------- fetchStockInfo
\* log.Fatalf: the message is logged and os.Exit(1) ends the process, with
\* every request in progress.
Fatalf(p, why) ==
    /\ alive' = FALSE
    /\ hist' = [hist EXCEPT ![p].outcome = why]
    /\ UNCHANGED <<nameValidation, now, cacheMutex, cacheData, cacheTimestamp, pc, stockInfos, resp,
                   fetchCount, cacheDataSrc, cacheTsSrc, lastFetched, lastIssue>>

\* Lines 93-96: http.Get returns an error (upstream unreachable).
FetchTransportError(p) ==
    /\ alive
    /\ pc[p] = "fetch"
    /\ Fatalf(p, "transport")

\* Lines 100-103: io.ReadAll returns an error.
FetchReadError(p) ==
    /\ alive
    /\ pc[p] = "fetch"
    /\ Fatalf(p, "read")

\* Mutant: a failed fetch that is remembered as an attempt (the timestamp
\* is set although nothing was stored).
FetchDecodeErrorStamps(p) ==
    /\ alive
    /\ pc[p] = "fetch"
    /\ stockInfos' = [stockInfos EXCEPT ![p] = <<>>]
    /\ cacheTimestamp' = now
    /\ cacheMutex' = NoRequest
    /\ pc' = [pc EXCEPT ![p] = "geterr"]
    /\ hist' = [hist EXCEPT ![p].outcome = "decode"]
    /\ UNCHANGED <<nameValidation, now, alive, cacheData, resp,
                   fetchCount, cacheDataSrc, cacheTsSrc, lastFetched, lastIssue>>

\* Lines 107-109 and 123-125: the body is not the JSON expected (as is the
\* body of most non-2xx answers); get returns nil and the error, unlocking.
FetchDecodeError(p) ==
    /\ alive
    /\ pc[p] = "fetch"
    /\ stockInfos' = [stockInfos EXCEPT ![p] = <<>>]
    /\ cacheMutex' = NoRequest
    /\ pc' = [pc EXCEPT ![p] = "geterr"]
    /\ hist' = [hist EXCEPT ![p].outcome = "decode"]
    /\ UNCHANGED <<nameValidation, now, alive, cacheData, cacheTimestamp, resp,
                   fetchCount, cacheDataSrc, cacheTsSrc, lastFetched, lastIssue>>

\* Mutant: the mutex is released as soon as cacheData is assigned, before
\* the timestamp is.
FetchOKUnlocks(p, records) ==
    /\ alive
    /\ pc[p] = "fetch"
    /\ stockInfos' = [stockInfos EXCEPT ![p] = records]
    /\ lastFetched' = [id |-> hist[p].fetchId, records |-> records]
    /\ cacheData' = records
    /\ cacheDataSrc' = hist[p].fetchId
    /\ cacheMutex' = NoRequest
    /\ pc' = [pc EXCEPT ![p] = "storeTime"]
    /\ hist' = [hist EXCEPT ![p].outcome = "ok"]
    /\ UNCHANGED <<nameValidation, now, alive, cacheTimestamp, resp, fetchCount, cacheTsSrc, lastIssue>>

\* Lines 111, 122 and 127: the body decodes, fetchStockInfo returns its
\* msgArray and get assigns it to cacheData.
FetchOK(p, records) ==
    /\ alive
    /\ pc[p] = "fetch"
    /\ stockInfos' = [stockInfos EXCEPT ![p] = records]
    /\ lastFetched' = [id |-> hist[p].fetchId, records |-> records]
    /\ cacheData' = records
    /\ cacheDataSrc' = hist[p].fetchId
    /\ pc' = [pc EXCEPT ![p] = "storeTime"]
    /\ hist' = [hist EXCEPT ![p].outcome = "ok"]
    /\ UNCHANGED <<nameValidation, now, alive, cacheMutex, cacheTimestamp, resp, fetchCount, cacheTsSrc, lastIssue>>

\* Mutant: get returns the fetched records without setting the timestamp.
StoreTimeForgets(p) ==
    /\ alive
    /\ pc[p] = "storeTime"
    /\ cacheMutex' = NoRequest
    /\ pc' = [pc EXCEPT ![p] = "handle"]
    /\ hist' = [hist EXCEPT ![p].stamp = now,
                            ![p].servedBy = hist[p].fetchId]
    /\ UNCHANGED <<nameValidation, now, alive, cacheData, cacheTimestamp, stockInfos, resp,
                   fetchCount, cacheDataSrc, cacheTsSrc, lastFetched, lastIssue>>

\* Lines 128-130: the timestamp is set and get returns, unlocking.
StoreTime(p) ==
    /\ alive
    /\ pc[p] = "storeTime"
    /\ cacheTimestamp' = now
    /\ cacheTsSrc' = hist[p].fetchId
    /\ cacheMutex' = NoRequest
    /\ pc' = [pc EXCEPT ![p] = "handle"]
    /\ hist' = [hist EXCEPT ![p].stamp = now,
                            ![p].servedBy = hist[p].fetchId]
    /\ UNCHANGED <<nameValidation, now, alive, cacheData, stockInfos, resp,
                   fetchCount, cacheDataSrc, lastFetched, lastIssue>>

\* ------------------------------------------------------ the /metrics handler
\* Lines 156-160: get returned an error.
RespondFetchError(p) ==
    /\ alive
    /\ pc[p] = "geterr"
    /\ resp' = [resp EXCEPT ![p] =
                  [status |-> "500", metrics |-> <<>>, msg |-> "Failed to fetch stock info"]]
    /\ pc' = [pc EXCEPT ![p] = "done"]
    /\ UNCHANGED <<nameValidation, now, alive, cacheMutex, cacheData, cacheTimestamp, stockInfos,
                   fetchCount, cacheDataSrc, cacheTsSrc, lastFetched, lastIssue, hist>>

\* Mutant: a failed build drops the cached snapshot (the timestamp is reset
\* so that the next request fetches again).
HandleInvalidates(p) ==
    /\ alive
    /\ pc[p] = "handle"
    /\ resp' = [resp EXCEPT ![p] = Serve(stockInfos[p])]
    /\ cacheTimestamp' = IF Serve(stockInfos[p]).status = "200"
                           THEN cacheTimestamp ELSE ZeroTime
    /\ pc' = [pc EXCEPT ![p] = "done"]
    /\ UNCHANGED <<nameValidation, now, alive, cacheMutex, cacheData, stockInfos,
                   fetchCount, cacheDataSrc, cacheTsSrc, lastFetched, lastIssue, hist>>

\* Lines 162-191 with one registry kept for the whole process: the gauges
\* of earlier 200 responses are still registered when p's loop runs, and
\* MustRegister panics on the first name it meets again.
HandleSharedRegistry(p) ==
    /\ alive
    /\ pc[p] = "handle"
    /\ resp' = [resp EXCEPT ![p] =
                  IF \E q \in Requests \ {p} :
                        /\ pc[q] = "done" /\ resp[q].status = "200"
                        /\ \E i \in 1..Len(stockInfos[p]) :
                              MetricName(stockInfos[p][i]) \in RegisteredNames(resp[q].metrics)
                    THEN [status |-> "aborted", metrics |-> <<>>, msg |-> ""]
                    ELSE Serve(stockInfos[p])]
    /\ pc' = [pc EXCEPT ![p] = "done"]
    /\ UNCHANGED <<nameValidation, now, alive, cacheMutex, cacheData, cacheTimestamp, stockInfos,
                   fetchCount, cacheDataSrc, cacheTsSrc, lastFetched, lastIssue, hist>>

\* Lines 162-191: get returned a snapshot.
Handle(p) ==
    /\ alive
    /\ pc[p] = "handle"
    /\ resp' = [resp EXCEPT ![p] = Serve(stockInfos[p])]
    /\ pc' = [pc EXCEPT ![p] = "done"]
    /\ UNCHANGED <<nameValidation, now, alive, cacheMutex, cacheData, cacheTimestamp, stockInfos,
                   fetchCount, cacheDataSrc, cacheTsSrc, lastFetched, lastIssue, hist>>

\* Concurrent scrape requests against a feed answering from Feed.
Next ==
    \/ Tick
    \/ \E p \in Requests :
         \/ StartRequest(p)
         \/ Lock(p)
         \/ CacheHit(p)
         \/ CacheMiss(p)
         \/ FetchTransportError(p)
         \/ FetchReadError(p)
         \/ FetchDecodeError(p)
         \/ \E records \in Feed : FetchOK(p, records)
         \/ StoreTime(p)
         \/ RespondFetchError(p)
         \/ Handle(p)

Spec == Init /\ [][Next]_vars

\* Spec under the scheduling the runtime and the network give to a call of
\* getCachedStockInfo: a goroutine that can take its next step in get takes
\* it, an http.Get that went out comes back (with an answer or an error),
\* and a goroutine blocked in cacheMutex.Lock is not passed over for ever.
\* Nothing is assumed of the handler once get has returned.
Fairness ==
    \A p \in Requests :
        /\ SF_vars(Lock(p))
        /\ WF_vars(CacheHit(p) \/ CacheMiss(p) \/ StoreTime(p))
        /\ WF_vars(\/ FetchTransportError(p) \/ FetchReadError(p) \/ FetchDecodeError(p)
                   \/ \E records \in Feed : FetchOK(p, records))

SpecFair == Spec /\ Fairness

\* The first scrape request of a process, against a feed answering with any
\* msgArray of Responses.  The cache is empty, so line 119 is never taken.
FirstRequest == CHOOSE p \in Requests : \A q \in Requests : p <= q

NextFirst ==
    \/ Tick
    \/ StartRequest(FirstRequest)
    \/ Lock(FirstRequest)
    \/ CacheMiss(FirstRequest)
    \/ FetchTransportError(FirstRequest)
    \/ FetchReadError(FirstRequest)
    \/ FetchDecodeError(FirstRequest)
    \/ \E records \in Responses : FetchOK(FirstRequest, records)
    \/ StoreTime(FirstRequest)
    \/ RespondFetchError(FirstRequest)
    \/ Handle(FirstRequest)

SpecFirst == Init /\ [][NextFirst]_vars

\* ------------------------------------------------------------------ claims
\* Requests whose call of getCachedStockInfo has returned.
Returned == { "handle", "geterr", "done" }
Failures == { "decode", "transport", "read" }
\* The step is one of request p.
StepOf(p) == pc'[p] # pc[p] \/ (alive /\ ~alive' /\ hist'[p] # hist[p])

\* C1: at most one upstream fetch is in flight at any instant, and the
\* request it is made for holds cacheMutex.
C1_SingleFlight ==
    /\ Cardinality({ p \in Requests : pc[p] = "fetch" }) <= 1
    /\ \A p \in Requests : pc[p] = "fetch" => cacheMutex = p

\* A fetch is in flight while another request is blocked in Lock.
C1_Witness ==
    \E p, q \in Requests : pc[p] = "fetch" /\ pc[q] = "lock"

\* C2: a get whose check finds now - cacheTimestamp < 5 s returns cacheData
\* with no error, starts no upstream call and leaves the cell as it was.
C2_FreshHit ==
    [][\A p \in Requests :
         (pc[p] = "check" /\ now - cacheTimestamp < TTL /\ StepOf(p)) =>
            /\ pc'[p] = "handle"
            /\ stockInfos'[p] = cacheData
            /\ fetchCount' = fetchCount
            /\ cacheData' = cacheData
            /\ cacheTimestamp' = cacheTimestamp]_vars

\* A request was answered from the cache: get returned without a fetch.
C2_Witness ==
    \E p \in Requests :
        pc[p] \in { "handle", "done" } /\ hist[p].fetchId = 0 /\ hist[p].servedBy > 0

\* C3: no step of a get that ends in a failed fetch writes cacheData or
\* cacheTimestamp, and while it runs no other request does: the cell is
\* written only by the holder of cacheMutex after its fetch returned.
C3_FailureKeepsCell ==
    [][/\ \A p \in Requests :
            (StepOf(p) /\ (pc'[p] \in { "check", "fetch", "geterr" } \/ ~alive')) =>
               cacheData' = cacheData /\ cacheTimestamp' = cacheTimestamp
       /\ (cacheData' # cacheData \/ cacheTimestamp' # cacheTimestamp) =>
            /\ cacheMutex \in Requests
            /\ pc[cacheMutex] \in { "fetch", "storeTime" }
            /\ StepOf(cacheMutex)
            /\ hist'[cacheMutex].outcome = "ok"]_vars

\* A fetch failed while a snapshot of an earlier fetch was stored.
C3_Witness ==
    \E p \in Requests :
        /\ hist[p].outcome \in Failures
        /\ cacheTsSrc > 0
        /\ cacheTsSrc # hist[p].fetchId

\* C4 (as claimed): a transport error leaves the process running and the
\* request that met it is answered 500.
C4_TransportErrorRecoverable ==
    \A p \in Requests :
        hist[p].outcome \in { "transport", "read" } =>
            alive /\ (pc[p] = "done" => resp[p].status = "500")

\* C5 (as claimed): of the requests in progress together during a miss,
\* once all have returned from get, only the one that missed has fetched and
\* the others were served what it stored.
C5_ExactlyOneFetch ==
    \A p \in Requests :
        (/\ hist[p].fetchId > 0
         /\ hist[p].waiting # {}
         /\ \A q \in hist[p].waiting \cup {p} : pc[q] \in Returned) =>
            \A q \in hist[p].waiting :
                hist[q].fetchId = 0 /\ hist[q].servedBy = hist[p].fetchId

\* C5 (amended): when the fetch of the request that missed succeeds, every
\* request that was blocked in Lock meanwhile and makes its check less than
\* 5 s after the stored cacheTimestamp starts no fetch and is returned the
\* records that fetch stored.
C5_WaitersServedFromStore ==
    [][\A p, q \in Requests :
         (/\ q \in hist[p].waiting
          /\ hist[p].stamp # Never
          /\ pc[q] = "check" /\ StepOf(q)
          /\ now - hist[p].stamp < TTL) =>
            /\ pc'[q] = "handle"
            /\ fetchCount' = fetchCount
            /\ hist'[q].servedBy = hist[p].fetchId
            /\ stockInfos'[q] = stockInfos[p]]_vars

\* A request blocked during another's miss was served that one's snapshot.
C5_Witness ==
    \E p, q \in Requests :
        /\ q \in hist[p].waiting
        /\ hist[p].stamp # Never
        /\ pc[q] \in { "handle", "done" }
        /\ hist[q].fetchId = 0
        /\ hist[q].servedBy = hist[p].fetchId

\* C6 (as claimed): two requests arriving less than 5 s apart trigger
\* exactly one upstream fetch between them.
C6_OneFetchPerPair ==
    \A q \in Requests :
        (/\ q - 1 \in Requests
         /\ hist[q].nearPrev
         /\ pc[q - 1] \in Returned /\ pc[q] \in Returned) =>
            (hist[q - 1].fetchId > 0) # (hist[q].fetchId > 0)

\* C6 (amended): when the fetch of one request succeeds, any other request
\* making its check less than 5 s after the cacheTimestamp stored by the
\* first starts no fetch of its own and is served from the cache.
C6_SecondServedFromCache ==
    [][\A p, q \in Requests :
         (/\ p # q
          /\ hist[p].fetchId > 0 /\ hist[p].outcome = "ok" /\ hist[p].stamp # Never
          /\ pc[q] = "check" /\ StepOf(q)
          /\ now - hist[p].stamp < TTL) =>
            /\ hist'[q].fetchId = 0
            /\ fetchCount' = fetchCount
            /\ pc'[q] = "handle"
            /\ cacheMutex' = NoRequest
            /\ stockInfos'[q] = cacheData /\ cacheData = stockInfos[p]]_vars

\* A request arrived after another's fetch had started, less than 5 s after
\* that other arrived, and was answered from the cache.
C6_Witness ==
    \E q \in Requests :
        /\ q - 1 \in Requests
        /\ hist[q].nearPrev
        /\ q \notin hist[q - 1].waiting
        /\ hist[q - 1].stamp # Never
        /\ pc[q] = "done"
        /\ hist[q].fetchId = 0
        /\ hist[q].servedBy = hist[q - 1].fetchId

\* C7 (as claimed): a request arriving when the cache is 5 s old or older
\* triggers an upstream fetch.
C7_ExpiredAtIssueFetches ==
    \A p \in Requests :
        (hist[p].expiredAtIssue /\ pc[p] \in Returned) => hist[p].fetchId > 0

\* C7 (amended): a request whose check finds 5 s or more elapsed since
\* cacheTimestamp starts exactly one upstream call (upstream calls start at
\* no other step, and no request makes its check twice), and when that call
\* succeeds the cacheTimestamp stored is strictly later than the one replaced.
C7_ExpiredCheckFetchesOnce ==
    [][/\ \A p \in Requests :
            /\ (pc[p] = "check" /\ now - cacheTimestamp >= TTL /\ StepOf(p)) =>
                  /\ pc'[p] = "fetch"
                  /\ fetchCount' = fetchCount + 1
                  /\ hist'[p].fetchId = fetchCount + 1
            /\ (pc[p] = "storeTime" /\ StepOf(p)) => cacheTimestamp' > cacheTimestamp
            /\ pc'[p] = "check" => pc[p] \in { "lock", "check" }
       /\ fetchCount' # fetchCount =>
            \E p \in Requests : pc[p] = "check" /\ pc'[p] = "fetch"]_vars

\* A request missed on a snapshot stored by an earlier one and stored anew.
C7_Witness ==
    \E p, r \in Requests :
        /\ hist[r].stamp # Never
        /\ hist[p].stamp # Never
        /\ hist[p].fetchId > hist[r].fetchId
        /\ hist[p].stamp >= hist[r].stamp + TTL

\* What get returned to p is from one upstream call.
ReturnsWhole(p) ==
    (pc'[p] = "handle" /\ pc[p] # "handle") =>
        /\ stockInfos'[p] = lastFetched'.records
        /\ hist'[p].servedBy = lastFetched'.id
        /\ stockInfos'[p] = cacheData'

\* C8: whenever cacheMutex is free, cacheData and cacheTimestamp come from
\* the same successful fetch (the latest one) or are both initial; and what
\* get returns is the whole msgArray of that one fetch.
C8_AtomicReplace ==
    /\ [](cacheMutex = NoRequest =>
            /\ cacheDataSrc = cacheTsSrc
            /\ cacheDataSrc = lastFetched.id
            /\ cacheData = lastFetched.records
            /\ cacheDataSrc = 0 => (cacheData = <<>> /\ cacheTimestamp = ZeroTime)
            /\ cacheDataSrc > 0 =>
                 \E p \in Requests :
                     /\ hist[p].fetchId = cacheDataSrc
                     /\ hist[p].stamp = cacheTimestamp
                     /\ stockInfos[p] = cacheData)
    /\ [][\A p \in Requests : ReturnsWhole(p)]_vars

\* The cell was replaced by a second fetch and its snapshot was returned.
C8_Witness ==
    /\ cacheMutex = NoRequest
    /\ cacheTsSrc = 2
    /\ \E p \in Requests : pc[p] = "done" /\ hist[p].servedBy = 2

\* C9 (as claimed): a request whose fetch failed gets the error and no
\* snapshot from get, and is answered 500 with no metric.
C9_FailureAnswered500 ==
    \A p \in Requests :
        hist[p].outcome \in Failures =>
            /\ pc[p] \in { "geterr", "done" }
            /\ stockInfos[p] = <<>>
            /\ pc[p] = "done" => (resp[p].status = "500" /\ resp[p].metrics = <<>>)

\* Some record of the snapshot has a price ParseFloat rejects.
HasBadPrice(infos) == \E i \in 1..Len(infos) : ~ParseFloat(infos[i].Pz).ok

\* C10 (as claimed): a scrape whose snapshot holds a price that does not
\* parse, at any position, is answered 500 with no metric.
C10_BadPriceAnswered500 ==
    \A p \in Requests :
        (pc[p] = "done" /\ hist[p].servedBy > 0 /\ HasBadPrice(stockInfos[p])) =>
            resp[p].status = "500" /\ resp[p].metrics = <<>>

\* Two records of the snapshot are given the same metric name.
HasNameCollision(infos) ==
    \E i, j \in 1..Len(infos) :
        i # j /\ infos[i].Ex = infos[j].Ex /\ infos[i].C = infos[j].C

\* C11 (as claimed): a scrape whose snapshot holds two records with the same
\* exchange and category is answered 500 with an error message; the request
\* does not end abnormally.
C11_CollisionAnswered500 ==
    \A p \in Requests :
        (pc[p] = "done" /\ hist[p].servedBy > 0 /\ HasNameCollision(stockInfos[p])) =>
            resp[p].status = "500" /\ resp[p].msg # ""

\* The handler answered p "Failed to parse price".
ParseFailed(p) == pc[p] = "done" /\ resp[p].msg = "Failed to parse price"

\* C12: the handler step that ends in a price-parse failure writes neither
\* cacheData nor cacheTimestamp nor takes the mutex, and after it a request
\* whose check finds that same snapshot younger than 5 s is still returned
\* it, with no upstream call.
C12_ParseFailureKeepsCache ==
    [][/\ \A p \in Requests :
            (pc[p] = "handle" /\ StepOf(p) /\ resp'[p].status = "500") =>
               /\ cacheData' = cacheData
               /\ cacheTimestamp' = cacheTimestamp
               /\ cacheMutex' = cacheMutex
       /\ \A p, q \in Requests :
            (/\ ParseFailed(p)
             /\ hist[p].servedBy = cacheTsSrc
             /\ pc[q] = "check" /\ StepOf(q)
             /\ now - cacheTimestamp < TTL) =>
               /\ pc'[q] = "handle"
               /\ stockInfos'[q] = stockInfos[p]
               /\ fetchCount' = fetchCount]_vars

\* A scrape failed on a price and another request was then returned the
\* same stored snapshot from the cache.
C12_Witness ==
    \E p, q \in Requests :
        /\ ParseFailed(p)
        /\ hist[p].fetchId > 0
        /\ pc[q] = "handle"
        /\ hist[q].fetchId = 0
        /\ hist[q].servedBy = hist[p].servedBy
        /\ stockInfos[q] = cacheData
        /\ HasBadPrice(cacheData)

\* p's scrape went through the handler's loop over its snapshot.
Handled(p) == pc[p] = "done" /\ hist[p].servedBy > 0

AllParsable(infos) == \A i \in 1..Len(infos) : ParseFloat(infos[i].Pz).ok

\* "<exchange>_<category>_gauge", letter by letter.
GaugeNameOf(info) == info.Ex \o <<"_">> \o info.C \o <<"_", "g", "a", "u", "g", "e">>

\* The gauge g carries the name and the parsed price of the record info.
GaugeOf(g, info) ==
    /\ g.name = GaugeNameOf(info)
    /\ g.neg = ParseFloat(info.Pz).neg
    /\ g.mant = ParseFloat(info.Pz).mant
    /\ g.exp = ParseFloat(info.Pz).exp

\* C13 as stated: a 200 response to a snapshot of K parsable records holds K
\* gauges and the i-th gauge of the response is the one of the i-th record.
C13_IthGaugeIsIthRecord ==
    \A p \in Requests :
        (Handled(p) /\ AllParsable(stockInfos[p]) /\ resp[p].status = "200") =>
            /\ Len(resp[p].metrics) = Len(stockInfos[p])
            /\ \A i \in 1..Len(stockInfos[p]) :
                  i <= Len(resp[p].metrics) /\ GaugeOf(resp[p].metrics[i], stockInfos[p][i])

\* C13: a 200 response to a snapshot of K parsable records holds exactly K
\* gauges, one for each record, named "<exchange>_<category>_gauge" and valued
\* with the record's parsed price; the response lists them in the order of
\* their names, not of the records.
C13_OneGaugePerRecord ==
    \A p \in Requests :
        (Handled(p) /\ AllParsable(stockInfos[p]) /\ resp[p].status = "200") =>
            LET K == Len(stockInfos[p])
                metrics == resp[p].metrics
            IN  /\ Len(metrics) = K
                /\ \A i \in 1..K :
                      \E j \in 1..Len(metrics) :
                         /\ GaugeOf(metrics[j], stockInfos[p][i])
                         /\ \A k \in 1..Len(metrics) :
                               metrics[k].name = metrics[j].name => k = j
                /\ \A j \in 1..(Len(metrics) - 1) :
                      StrLess(metrics[j].name, metrics[j + 1].name)

\* A 200 response of two gauges whose first gauge comes from the second record.
C13_Witness ==
    \E p \in Requests :
        /\ Handled(p) /\ resp[p].status = "200"
        /\ Len(stockInfos[p]) = 2 /\ Len(resp[p].metrics) = 2
        /\ GaugeOf(resp[p].metrics[1], stockInfos[p][2])
        /\ GaugeOf(resp[p].metrics[2], stockInfos[p][1])

\* C14: two scrapes built from the same stored snapshot (one fetched it, the
\* other was served it from the cache within the TTL, or both were) receive
\* identical responses: the same status, the same gauges with the same names
\* and values in the same order.
C14_SameSnapshotSameResponse ==
    \A p, q \in Requests :
        (Handled(p) /\ Handled(q) /\ hist[p].servedBy = hist[q].servedBy) =>
            resp[p] = resp[q]

\* Two scrapes of one TTL window, the second served from the cache, both
\* answered 200 with gauges.
C14_Witness ==
    \E p, q \in Requests :
        /\ p # q /\ Handled(p) /\ Handled(q)
        /\ hist[p].servedBy = hist[q].servedBy
        /\ hist[p].fetchId > 0 /\ hist[q].fetchId = 0
        /\ resp[q].status = "200" /\ Len(resp[q].metrics) > 1

\* C15: while no fetch has succeeded (cacheTimestamp still holds its zero
\* value) every freshness check misses and calls the upstream, whatever the
\* clock reads; a request is returned the stored cell only after a
\* successful fetch stored data and timestamp; and nothing is returned at
\* all before the first upstream call.
C15_FirstCallMisses ==
    [][/\ \A p \in Requests :
            (pc[p] = "check" /\ StepOf(p)) =>
               /\ cacheTsSrc = 0 =>
                     /\ cacheTimestamp = ZeroTime
                     /\ pc'[p] = "fetch"
                     /\ fetchCount' = fetchCount + 1
               /\ pc'[p] = "handle" =>
                     /\ cacheTsSrc > 0 /\ cacheDataSrc = cacheTsSrc
                     /\ \E q \in Requests :
                           hist[q].fetchId = cacheTsSrc /\ hist[q].outcome = "ok"
       /\ fetchCount' = 0 => \A p \in Requests : pc'[p] \notin {"handle", "done"}]_vars

\* The first call of the process found the initial cell, at a clock reading
\* later than the start, and is in its upstream call.
C15_Witness ==
    \E p \in Requests :
        /\ pc[p] = "fetch" /\ hist[p].fetchId = 1
        /\ cacheTimestamp = ZeroTime /\ cacheData = <<>>
        /\ now > 0

\* C17: get returns a snapshot without error (the request moves on to the
\* handler's loop) in two ways only: after its own upstream call, with the
\* records that call decoded; or from the freshness check, with cacheData,
\* when the stored timestamp is strictly less than 5 s before the clock at
\* the check.  A check that finds the stored snapshot 5 s old or older
\* returns nothing and fetches.
C17_StalenessBound ==
    [][\A p \in Requests :
          /\ (pc'[p] = "handle" /\ pc[p] # "handle") =>
                \/ /\ pc[p] = "storeTime"
                   /\ hist[p].fetchId > 0
                   /\ lastFetched.id = hist[p].fetchId
                   /\ stockInfos'[p] = lastFetched.records
                   /\ hist'[p].servedBy = hist[p].fetchId
                \/ /\ pc[p] = "check"
                   /\ cacheTsSrc > 0
                   /\ now - cacheTimestamp < TTL
                   /\ stockInfos'[p] = cacheData
                   /\ hist'[p].servedBy = cacheTsSrc
          /\ (pc[p] = "check" /\ StepOf(p) /\ now - cacheTimestamp >= TTL) =>
                pc'[p] = "fetch" /\ stockInfos'[p] = stockInfos[p]]_vars

\* A request was returned the stored snapshot in the last second of its
\* TTL window.
C17_Witness ==
    \E p \in Requests :
        /\ pc[p] = "handle" /\ hist[p].fetchId = 0
        /\ hist[p].servedBy = cacheTsSrc
        /\ now - cacheTimestamp = TTL - 1

\* C18: once a get has returned the error of its upstream call, and until a
\* later call succeeds and stores a timestamp, every freshness check (of a
\* request that waited on the mutex during the failed call, or of one that
\* came later) finds the cache expired and makes its own upstream call.
C18_FailureNotCached ==
    [][\A p, q \in Requests :
          (/\ hist[p].outcome = "decode"
           /\ cacheTsSrc < hist[p].fetchId
           /\ pc[q] = "check" /\ StepOf(q)) =>
              /\ pc'[q] = "fetch"
              /\ fetchCount' = fetchCount + 1
              /\ hist'[q].fetchId = fetchCount + 1]_vars

\* A request that waited on the mutex while another's upstream call failed
\* is in its own upstream call.
C18_Witness ==
    \E p, q \in Requests :
        /\ hist[p].outcome = "decode" /\ pc[p] \in {"geterr", "done"}
        /\ q \in hist[p].waiting
        /\ pc[q] = "fetch"
        /\ hist[q].fetchId > hist[p].fetchId

\* Only letters, digits and underscores, starting with a letter or an
\* underscore (over the letters of the model).
IsIdentifier(name) ==
    /\ Len(name) > 0
    /\ name[1] \in { "_", "a", "b", "c", "e", "g", "t", "u" }
    /\ \A k \in 2..Len(name) :
          name[k] \in { "_", "a", "b", "c", "e", "g", "t", "u",
                        "0", "1", "2", "3", "4", "5", "6", "7", "8", "9" }

\* C16: for every record of a snapshot the handler has gone through, the
\* metric name built from its exchange and category is a valid identifier,
\* and so is the name of every gauge in the response.
C16_NamesAreIdentifiers ==
    \A p \in Requests :
        Handled(p) =>
            /\ \A i \in 1..Len(stockInfos[p]) : IsIdentifier(MetricName(stockInfos[p][i]))
            /\ \A j \in 1..Len(resp[p].metrics) : IsIdentifier(resp[p].metrics[j].name)

\* cacheMutex is held by exactly the request that is inside get past Lock.
LockHeldInsideGet ==
    \A p \in Requests : cacheMutex = p <=> pc[p] \in {"check", "fetch", "storeTime"}

\* C19: the mutex is held only while a get is executing (it is released on
\* the hit, on the fetch success and on the fetch error), and every request
\* that calls get is eventually returned a result, when every upstream call
\* comes back and Lock is fair.
C19_LockReleasedAndGetReturns ==
    /\ [](cacheMutex # NoRequest => LockHeldInsideGet)
    /\ \A p \in Requests : (pc[p] = "lock") ~> (pc[p] \in Returned)

\* C20: a scrape that is returned from the cache (no upstream call of its
\* own) a snapshot holding a price that does not parse is answered 500 with
\* no metric.
C20_CachedBadPriceAnswered500 ==
    \A q \in Requests :
        (Handled(q) /\ hist[q].fetchId = 0 /\ HasBadPrice(stockInfos[q])) =>
            resp[q].status = "500" /\ resp[q].metrics = <<>>

====
